---------------------------- MODULE Spec2Model ----------------------------
(***************************************************************************)
(* Flag_LoadNumbers.ipynb: the load-number flagging notebook.              *)
(*                                                                         *)
(* The notebook is a straight-line batch program: one cell after another   *)
(* rewrites the two tables orig_df (one row per telemetry record) and      *)
(* group_intervals (one row per (contract, group)).  Each code cell is one *)
(* action; pc names the cell that runs next.                               *)
(*                                                                         *)
(* Time is counted in whole units; a timedelta is a difference of two      *)
(* times, and a mean of timedeltas is kept exactly as the pair             *)
(* (sum, count) so that comparisons with it are exact.  A missing value    *)
(* (NaN, NaT, pd.NA) is Null.                                              *)
(***************************************************************************)
EXTENDS Integers, Sequences, FiniteSets

VARIABLES
    cfg,              \* the "User Settings" cell: the seven thresholds
    input,            \* the rows of the input CSV, in file order
    orig_df,          \* the record table
    group_intervals,  \* the interval table
    orig_df_out,      \* the backfilled record table
    output_csv,       \* the rows written to the output CSV
    pc,               \* the cell that runs next; "error" after an exception
    run,              \* 1: first run; 2: the run on the first run's output
    first_csv         \* the first run's output CSV, kept during the second run

vars == <<cfg, input, orig_df, group_intervals, orig_df_out, output_csv, pc, run,
          first_csv>>

----------------------------------------------------------------------------
(* Bounds of the model *)

MaxRecords == 3
MaxTime == 2

\* a missing value: NaN in load_number, NaT in time_delta / time_diff
Null == -1

Contracts == {7, 8}
Loads == {1, 2}
Times == 0 .. MaxTime

----------------------------------------------------------------------------
(* Generic helpers on sequences *)

Range(s) == {s[i] : i \in DOMAIN s}

RECURSIVE SumSeq(_)
SumSeq(s) == IF s = <<>> THEN 0 ELSE s[1] + SumSeq(Tail(s))

Abs(x) == IF x < 0 THEN 0 - x ELSE x

SetMin(S) == CHOOSE x \in S : \A y \in S : x <= y
SetMax(S) == CHOOSE x \in S : \A y \in S : x >= y

\* the elements of a finite set of integers in ascending order
RECURSIVE Ascending(_)
Ascending(S) == IF S = {} THEN <<>> ELSE <<SetMin(S)>> \o Ascending(S \ {SetMin(S)})

\* s[p[1]], s[p[2]], ...: the rows of s taken in the order p
Take(s, p) == [i \in DOMAIN p |-> s[p[i]]]

Perms(n) == {p \in [1 .. n -> 1 .. n] : \A i, j \in 1 .. n : i # j => p[i] # p[j]}

RECURSIVE Flatten(_)
Flatten(ss) == IF ss = <<>> THEN <<>> ELSE ss[1] \o Flatten(Tail(ss))

----------------------------------------------------------------------------
(* Step 1: Data Preprocessing *)

\* the table left as it is, the sort missing
sort_values_left_out(df) == {df}

\* DataFrame.sort_values('msg_time') with the default kind='quicksort', which is
\* not stable: every arrangement of the rows with msg_time ascending is a
\* possible result; rows with equal msg_time may come out in any order.
sort_values_msg_time(df) ==
    {Take(df, p) : p \in {q \in Perms(Len(df)) :
        \A i \in 1 .. Len(df) - 1 : df[q[i]].msg_time <= df[q[i + 1]].msg_time}}

\* groupby('contract_id')['msg_time'].diff(): the row's msg_time minus that of
\* the previous row of the same contract, NaT for a contract's first row
diff_msg_time(df, i) ==
    LET before == {j \in 1 .. i - 1 : df[j].contract_id = df[i].contract_id}
    IN  IF before = {} THEN Null
        ELSE df[i].msg_time - df[SetMax(before)].msg_time

\* the cell with the comparison >= in place of >
time_delta_cell_at_or_above(df, c) ==
    [i \in DOMAIN df |->
        LET d == diff_msg_time(df, i)
        IN  [df[i] EXCEPT !.time_delta =
                IF d # Null /\ d >= c.contract_gap_threshold THEN Null ELSE d]]

\* the time_delta cell: the diff, with deltas above contract_gap_threshold set
\* to pd.NA (NaT > threshold is False, so a NaT stays)
time_delta_cell(df, c) ==
    [i \in DOMAIN df |->
        LET d == diff_msg_time(df, i)
        IN  [df[i] EXCEPT !.time_delta =
                IF d # Null /\ d > c.contract_gap_threshold THEN Null ELSE d]]

\* a comparison in which two missing labels count as equal
ne_nan_equal(a, b) == a # b

\* Series.ne: elementwise !=, where NaN differs from everything, NaN included
ne(a, b) == a = Null \/ b = Null \/ a # b

\* group['load_number'].ne(group['load_number'].shift()).cumsum() for one
\* contract's rows: shift() puts NaN before the first row
RECURSIVE cumsum_ne(_, _)
cumsum_ne(group, i) ==
    IF i = 0 THEN 0
    ELSE cumsum_ne(group, i - 1) +
         (IF ne(group[i].load_number,
                IF i = 1 THEN Null ELSE group[i - 1].load_number) THEN 1 ELSE 0)

calculate_group_number(group) ==
    [i \in DOMAIN group |-> [group[i] EXCEPT !.group_number = cumsum_ne(group, i)]]

\* the rows of one contract, in table order
contract_rows(df, c) == SelectSeq(df, LAMBDA r : r.contract_id = c)

\* groupby(key).apply(f) followed by reset_index(drop=True): the groups, in
\* ascending key order, each passed through f, concatenated
contract_keys(df) == Ascending({df[i].contract_id : i \in DOMAIN df})

groupby_contract_apply_group_number(df) ==
    LET keys == contract_keys(df)
    IN  Flatten([k \in DOMAIN keys |->
                    calculate_group_number(contract_rows(df, keys[k]))])

----------------------------------------------------------------------------
(* Step 2: Create Load Group Intervals *)

\* the (contract_id, group_number) keys of groupby(['contract_id',
\* 'group_number']), in the ascending order the loop visits them
group_keys(df) ==
    LET keys == contract_keys(df)
    IN  Flatten([k \in DOMAIN keys |->
            LET gs == Ascending({df[i].group_number :
                        i \in {j \in DOMAIN df : df[j].contract_id = keys[k]}})
            IN  [g \in DOMAIN gs |-> <<keys[k], gs[g]>>]])

\* Series.mean() of time_delta: NaT values are skipped; the mean of no value is
\* NaT, written as count 0
mean_time_delta(rows) ==
    LET known == SelectSeq(rows, LAMBDA r : r.time_delta # Null)
    IN  [sum |-> SumSeq([i \in DOMAIN known |-> known[i].time_delta]),
         count |-> Len(known)]

\* Series.min() of load_number: NaN values are skipped, NaN when all are NaN
min_load_number(rows) ==
    LET known == {rows[i].load_number : i \in DOMAIN rows} \ {Null}
    IN  IF known = {} THEN Null ELSE SetMin(known)

\* the count of the rows that have a load number (Series.count())
count_load_number(rows) == Len(SelectSeq(rows, LAMBDA r : r.load_number # Null))

\* df.shape[0]: the number of rows of the group
total_points(rows) == Len(rows)

\* one pass of the aggregation loop: the interval of one (contract, group);
\* the flag columns do not exist yet (Null)
make_interval(df, key) ==
    LET rows == SelectSeq(df, LAMBDA r : r.contract_id = key[1] /\ r.group_number = key[2])
        times == {rows[i].msg_time : i \in DOMAIN rows}
    IN  [contract |-> key[1],
         group |-> key[2],
         load |-> min_load_number(rows),
         msg_time_min |-> SetMin(times),
         msg_time_max |-> SetMax(times),
         time_delta_avg |-> mean_time_delta(rows),
         total_points |-> total_points(rows),
         total_time |-> Null,
         invalid_load_duration_short |-> Null,
         invalid_load_duration_long |-> Null,
         invalid_load_point_count_low |-> Null,
         invalid_load_point_count_high |-> Null,
         invalid_load_reporting_gap |-> Null,
         invalid_load_ping_rate |-> Null,
         invalid_load_duplicate |-> Null,
         invalid_duplicate_loads |-> Null,
         invalid_load_overlap |-> Null,
         time_diff |-> Null,
         invalid_load_noncontiguous |-> Null,
         invalid_load |-> Null,
         msg_time |-> Null]

interval_aggregation(df) ==
    LET keys == group_keys(df)
    IN  [k \in DOMAIN keys |-> make_interval(df, keys[k])]

\* total_time: x.right - x.left of the closed interval [msg_time_min, msg_time_max]
interval_columns(gi) ==
    [i \in DOMAIN gi |-> [gi[i] EXCEPT !.total_time = gi[i].msg_time_max - gi[i].msg_time_min]]

----------------------------------------------------------------------------
(* Flag Any Outliers in the Load Groups *)

where(b) == IF b THEN 1 ELSE 0

duration_flags(gi, c) ==
    [i \in DOMAIN gi |-> [gi[i] EXCEPT
        !.invalid_load_duration_short = where(gi[i].total_time < c.duration_threshold_min),
        !.invalid_load_duration_long = where(gi[i].total_time > c.duration_threshold_max)]]

point_count_flags(gi, c) ==
    [i \in DOMAIN gi |-> [gi[i] EXCEPT
        !.invalid_load_point_count_low = where(gi[i].total_points < c.point_threshold_min),
        !.invalid_load_point_count_high = where(gi[i].total_points > c.point_threshold_max)]]

\* pd.DataFrame(interval_dict) infers a column's dtype from the list's values:
\* Timedelta values, with or without NaT among them, give timedelta64[ns], and a
\* list of NaT alone gives datetime64[ns]
time_delta_avg_all_nat(gi) == \A i \in DOMAIN gi : gi[i].time_delta_avg.count = 0

\* time_delta_avg > load_gap_threshold; a NaT average compares False.
\* sum / count > t  iff  sum > t * count
reporting_gap_flag(gi, c) ==
    [i \in DOMAIN gi |-> [gi[i] EXCEPT
        !.invalid_load_reporting_gap =
            where(gi[i].time_delta_avg.count > 0 /\
                  gi[i].time_delta_avg.sum >
                      c.load_gap_threshold * gi[i].time_delta_avg.count)]]

\* abs(total_time / total_points - time_delta_avg) > ping_rate_threshold;
\* NaT.total_seconds() is nan and abs(nan) > t is False.
\* |T / n - s / k| > t  iff  |T * k - s * n| > t * n * k
flag_invalid_ping_rates(row, ping_rate_threshold) ==
    LET avg == row.time_delta_avg
    IN  IF avg.count > 0 /\
           Abs(row.total_time * avg.count - avg.sum * row.total_points) >
               ping_rate_threshold * row.total_points * avg.count
        THEN 1 ELSE 0

ping_rate_flag(gi, c) ==
    [i \in DOMAIN gi |-> [gi[i] EXCEPT
        !.invalid_load_ping_rate = flag_invalid_ping_rates(gi[i], c.ping_rate_threshold)]]

\* the rows of one contract of the interval table, in table order
interval_rows(gi, c) == SelectSeq(gi, LAMBDA r : r.contract = c)

interval_contract_keys(gi) == Ascending({gi[i].contract : i \in DOMAIN gi})

\* df['load'].duplicated(keep=False): every row whose load occurs in another
\* row of the group; duplicated() counts NaN as equal to NaN.
\* The function writes 1 into the column 'invalid_duplicate_loads' (NaN in the
\* rows outside the mask), which is not the column 'invalid_load_duplicate'.
flag_duplicated_load_numbers(df) ==
    [i \in DOMAIN df |->
        LET mask == \E j \in DOMAIN df : j # i /\ df[j].load = df[i].load
        IN  [df[i] EXCEPT !.invalid_duplicate_loads = IF mask THEN 1 ELSE @]]

\* group_intervals['invalid_load_duplicate'] = 0, then
\* groupby('contract').apply(flag_duplicated_load_numbers).reset_index(drop=True)
duplicate_flag(gi) ==
    LET zeroed == [i \in DOMAIN gi |-> [gi[i] EXCEPT !.invalid_load_duplicate = 0]]
        keys == interval_contract_keys(gi)
    IN  Flatten([k \in DOMAIN keys |->
            flag_duplicated_load_numbers(interval_rows(zeroed, keys[k]))])

\* Interval.overlaps for two intervals closed on both sides
overlaps(a, b) == a.msg_time_min <= b.msg_time_max /\ b.msg_time_min <= a.msg_time_max

\* the double loop over one contract's rows; itertuples' Index is the row's
\* label, unique after reset_index(drop=True)
check_overlaps(df) ==
    [i \in DOMAIN df |->
        [df[i] EXCEPT !.invalid_load_overlap =
            IF \E j \in DOMAIN df : i # j /\ overlaps(df[i], df[j]) THEN 1 ELSE @]]

\* the double loop run over the whole table instead of contract by contract
overlap_flag_ungrouped(gi) ==
    check_overlaps([i \in DOMAIN gi |-> [gi[i] EXCEPT !.invalid_load_overlap = 0]])

overlap_flag(gi) ==
    LET zeroed == [i \in DOMAIN gi |-> [gi[i] EXCEPT !.invalid_load_overlap = 0]]
        keys == interval_contract_keys(gi)
    IN  Flatten([k \in DOMAIN keys |-> check_overlaps(interval_rows(zeroed, keys[k]))])

\* the order of sort_values(['contract', 'interval']): by contract, then by the
\* interval's left end, then by its right end
interval_before(a, b) ==
    \/ a.contract < b.contract
    \/ a.contract = b.contract /\ a.msg_time_min < b.msg_time_min
    \/ a.contract = b.contract /\ a.msg_time_min = b.msg_time_min
                               /\ a.msg_time_max < b.msg_time_max

\* a sort on several columns is a lexsort, which is stable: a row goes after
\* every row it is not strictly before
RECURSIVE insert_stable(_, _)
insert_stable(s, x) ==
    IF s = <<>> THEN <<x>>
    ELSE IF interval_before(x, s[Len(s)])
         THEN Append(insert_stable(SubSeq(s, 1, Len(s) - 1), x), s[Len(s)])
         ELSE Append(s, x)

RECURSIVE sort_values_contract_interval(_)
sort_values_contract_interval(gi) ==
    IF gi = <<>> THEN <<>>
    ELSE insert_stable(sort_values_contract_interval(SubSeq(gi, 1, Len(gi) - 1)),
                       gi[Len(gi)])

\* ['msg_time_max'].shift(1) without the groupby: the row before, whatever
\* its contract
shift_msg_time_max_ungrouped(gi, i) ==
    IF i = 1 THEN Null ELSE gi[i - 1].msg_time_max

\* groupby('contract')['msg_time_max'].shift(1): the msg_time_max of the
\* previous row of the same contract, NaT for a contract's first row
shift_msg_time_max(gi, i) ==
    LET before == {j \in 1 .. i - 1 : gi[j].contract = gi[i].contract}
    IN  IF before = {} THEN Null ELSE gi[SetMax(before)].msg_time_max

\* the noncontiguous cell: sort, time_diff, flag (NaT > threshold is False)
noncontiguous_flag(gi, c) ==
    LET sorted == sort_values_contract_interval(gi)
    IN  [i \in DOMAIN sorted |->
            LET prev == shift_msg_time_max(sorted, i)
                diff == IF prev = Null THEN Null ELSE Abs(sorted[i].msg_time_min - prev)
            IN  [sorted[i] EXCEPT
                    !.time_diff = diff,
                    !.invalid_load_noncontiguous =
                        where(diff # Null /\ diff > c.load_gap_threshold)]]

\* the column list with 'invalid_load_overlap' left out
outlier_columns_without_overlap(row) ==
    <<row.invalid_load_duration_short, row.invalid_load_duration_long,
      row.invalid_load_point_count_low, row.invalid_load_point_count_high,
      row.invalid_load_reporting_gap, row.invalid_load_ping_rate,
      row.invalid_load_noncontiguous, row.invalid_load_duplicate>>

\* outlier_columns: the nine columns combined by .any(axis=1)
outlier_columns(row) ==
    <<row.invalid_load_duration_short, row.invalid_load_duration_long,
      row.invalid_load_point_count_low, row.invalid_load_point_count_high,
      row.invalid_load_reporting_gap, row.invalid_load_ping_rate,
      row.invalid_load_overlap, row.invalid_load_noncontiguous,
      row.invalid_load_duplicate>>

invalid_load_flag(gi) ==
    [i \in DOMAIN gi |-> [gi[i] EXCEPT
        !.invalid_load =
            where(\E k \in DOMAIN outlier_columns(gi[i]) : outlier_columns(gi[i])[k] # 0)]]

----------------------------------------------------------------------------
(* Rejoin Intervals with Outlier Flags to Original Data *)

\* group_intervals['msg_time'] = group_intervals['msg_time_min']
key_column(gi) == [i \in DOMAIN gi |-> [gi[i] EXCEPT !.msg_time = gi[i].msg_time_min]]

\* the ten flag columns of a row
flag_columns(row) ==
    [invalid_load_duration_short |-> row.invalid_load_duration_short,
     invalid_load_duration_long |-> row.invalid_load_duration_long,
     invalid_load_point_count_low |-> row.invalid_load_point_count_low,
     invalid_load_point_count_high |-> row.invalid_load_point_count_high,
     invalid_load_reporting_gap |-> row.invalid_load_reporting_gap,
     invalid_load_ping_rate |-> row.invalid_load_ping_rate,
     invalid_load_overlap |-> row.invalid_load_overlap,
     invalid_load_noncontiguous |-> row.invalid_load_noncontiguous,
     invalid_load_duplicate |-> row.invalid_load_duplicate,
     invalid_load |-> row.invalid_load]

\* the flag columns of a left row that matches no right row: NaN
no_flags ==
    [invalid_load_duration_short |-> Null, invalid_load_duration_long |-> Null,
     invalid_load_point_count_low |-> Null, invalid_load_point_count_high |-> Null,
     invalid_load_reporting_gap |-> Null, invalid_load_ping_rate |-> Null,
     invalid_load_overlap |-> Null, invalid_load_noncontiguous |-> Null,
     invalid_load_duplicate |-> Null, invalid_load |-> Null]

\* pd.merge(left, right, on='msg_time'): an inner join on equal keys, one row
\* per matching pair
merge_exact(left, right) ==
    Flatten([i \in DOMAIN left |->
        LET hits == SelectSeq(right, LAMBDA r : r.msg_time = left[i].msg_time)
        IN  [j \in DOMAIN hits |-> [row |-> left[i], flags |-> flag_columns(hits[j])]]])

\* pd.merge_asof(left, right, on='msg_time'), direction 'backward' with exact
\* matches allowed and no 'by' key: every left row, in order, once, with the
\* columns of the last right row whose msg_time is <= its own (NaN if none).
\* Both tables are sorted by msg_time.
merge_asof(left, right) ==
    [i \in DOMAIN left |->
        LET upto == {j \in DOMAIN right : right[j].msg_time <= left[i].msg_time}
        IN  [row |-> left[i],
             flags |-> IF upto = {} THEN no_flags ELSE flag_columns(right[SetMax(upto)])]]

\* drop(columns=['group_number', 'time_delta']).to_csv(): the input columns
\* and the ten flag columns
to_csv(out) ==
    [i \in DOMAIN out |->
        [contract_id |-> out[i].row.contract_id,
         msg_time |-> out[i].row.msg_time,
         load_number |-> out[i].row.load_number,
         payload |-> out[i].row.payload,
         flags |-> out[i].flags]]

\* pd.read_csv: the input columns of a CSV; time_delta and group_number do
\* not exist yet (Null)
read_csv(rows) ==
    [i \in DOMAIN rows |->
        [contract_id |-> rows[i].contract_id,
         msg_time |-> rows[i].msg_time,
         load_number |-> rows[i].load_number,
         payload |-> rows[i].payload,
         time_delta |-> Null,
         group_number |-> Null]]

----------------------------------------------------------------------------
(* The inputs *)

\* the "User Settings" cell, in the model's time unit: one strict and one
\* lenient setting
Configs ==
    {[contract_gap_threshold |-> 1, load_gap_threshold |-> 0,
      duration_threshold_min |-> 1, duration_threshold_max |-> 1,
      point_threshold_min |-> 2, point_threshold_max |-> 2,
      ping_rate_threshold |-> 0],
     [contract_gap_threshold |-> 2, load_gap_threshold |-> 1,
      duration_threshold_min |-> 0, duration_threshold_max |-> 2,
      point_threshold_min |-> 1, point_threshold_max |-> 3,
      ping_rate_threshold |-> 2]}

\* The first cell sorts the file's rows by msg_time and its possible results
\* are the same for every order of the same rows, so one file order is taken
\* per collection of rows: by contract, then load number, then time (which
\* leaves the times out of order across load numbers and contracts).
row_before_or_equal(a, b) ==
    \/ a[1] < b[1]
    \/ a[1] = b[1] /\ a[3] < b[3]
    \/ a[1] = b[1] /\ a[3] = b[3] /\ a[2] <= b[2]

\* the rows of an input CSV: the payload stands for the passthrough columns
\* and is the row's number in the file
InputRows(n) ==
    {[i \in 1 .. n |-> [contract_id |-> f[i][1], msg_time |-> f[i][2],
                        load_number |-> f[i][3], payload |-> i]] :
        f \in {g \in [1 .. n -> Contracts \X Times \X (Loads \cup {Null})] :
                \A i \in 1 .. n - 1 : row_before_or_equal(g[i], g[i + 1])}}

Inputs == UNION {InputRows(n) : n \in 1 .. MaxRecords}

----------------------------------------------------------------------------
(* The cells, in the order the notebook runs them *)

Init ==
    /\ cfg \in Configs
    /\ input \in Inputs
    /\ orig_df = read_csv(input)
    /\ group_intervals = <<>>
    /\ orig_df_out = <<>>
    /\ output_csv = <<>>
    /\ pc = "sort"
    /\ run = 1
    /\ first_csv = <<>>

\* orig_df = orig_df.sort_values('msg_time')
SortCell ==
    /\ pc = "sort"
    /\ orig_df' \in sort_values_msg_time(orig_df)
    /\ pc' = "time_delta"
    /\ UNCHANGED <<cfg, input, group_intervals, orig_df_out, output_csv, run, first_csv>>

TimeDeltaCell ==
    /\ pc = "time_delta"
    /\ orig_df' = time_delta_cell(orig_df, cfg)
    /\ pc' = "group_number"
    /\ UNCHANGED <<cfg, input, group_intervals, orig_df_out, output_csv, run, first_csv>>

\* sort_values('msg_time') again, then groupby('contract_id').apply(...)
GroupNumberCell ==
    /\ pc = "group_number"
    /\ \E sorted \in sort_values_msg_time(orig_df) :
            orig_df' = groupby_contract_apply_group_number(sorted)
    /\ pc' = "intervals"
    /\ UNCHANGED <<cfg, input, group_intervals, orig_df_out, output_csv, run, first_csv>>

IntervalCell ==
    /\ pc = "intervals"
    /\ group_intervals' = interval_aggregation(orig_df)
    /\ pc' = "interval_columns"
    /\ UNCHANGED <<cfg, input, orig_df, orig_df_out, output_csv, run, first_csv>>

\* a cell that only rewrites the interval table
IntervalStep(at, next, table) ==
    /\ pc = at
    /\ group_intervals' = table
    /\ pc' = next
    /\ UNCHANGED <<cfg, input, orig_df, orig_df_out, output_csv, run, first_csv>>

IntervalColumnsCell ==
    IntervalStep("interval_columns", "duration", interval_columns(group_intervals))

DurationCell ==
    IntervalStep("duration", "point_count", duration_flags(group_intervals, cfg))

PointCountCell ==
    IntervalStep("point_count", "reporting_gap", point_count_flags(group_intervals, cfg))

\* the comparison of a datetime64[ns] column with the Timedelta threshold
\* raises TypeError and the run ends in this cell
ReportingGapCell ==
    /\ pc = "reporting_gap"
    /\ IF time_delta_avg_all_nat(group_intervals)
       THEN /\ pc' = "error"
            /\ UNCHANGED group_intervals
       ELSE /\ group_intervals' = reporting_gap_flag(group_intervals, cfg)
            /\ pc' = "ping_rate"
    /\ UNCHANGED <<cfg, input, orig_df, orig_df_out, output_csv, run, first_csv>>

PingRateCell ==
    IntervalStep("ping_rate", "duplicate", ping_rate_flag(group_intervals, cfg))

DuplicateCell ==
    IntervalStep("duplicate", "overlap", duplicate_flag(group_intervals))

OverlapCell ==
    IntervalStep("overlap", "noncontiguous", overlap_flag(group_intervals))

NoncontiguousCell ==
    IntervalStep("noncontiguous", "duplicate_again",
                 noncontiguous_flag(group_intervals, cfg))

\* the duplicate cell occurs a second time, after the noncontiguous cell
DuplicateAgainCell ==
    IntervalStep("duplicate_again", "invalid_load", duplicate_flag(group_intervals))

InvalidLoadCell ==
    IntervalStep("invalid_load", "backfill", invalid_load_flag(group_intervals))

\* the key column, the two sorts, the merge
BackfillCell ==
    /\ pc = "backfill"
    /\ \E left \in sort_values_msg_time(orig_df),
          right \in sort_values_msg_time(key_column(group_intervals)) :
            /\ orig_df' = left
            /\ group_intervals' = right
            /\ orig_df_out' = merge_asof(left, right)
    /\ pc' = "write"
    /\ UNCHANGED <<cfg, input, output_csv, run, first_csv>>

WriteCell ==
    /\ pc = "write"
    /\ output_csv' = to_csv(orig_df_out)
    /\ pc' = "done"
    /\ UNCHANGED <<cfg, input, orig_df, group_intervals, orig_df_out, run, first_csv>>

\* the notebook run again on the CSV it wrote, the flag columns left out
Rerun ==
    /\ pc = "done"
    /\ run = 1
    /\ first_csv' = output_csv
    /\ input' = [i \in DOMAIN output_csv |->
                    [contract_id |-> output_csv[i].contract_id,
                     msg_time |-> output_csv[i].msg_time,
                     load_number |-> output_csv[i].load_number,
                     payload |-> output_csv[i].payload]]
    /\ orig_df' = read_csv(output_csv)
    /\ group_intervals' = <<>>
    /\ orig_df_out' = <<>>
    /\ output_csv' = <<>>
    /\ pc' = "sort"
    /\ run' = 2
    /\ UNCHANGED cfg

Next ==
    \/ SortCell
    \/ TimeDeltaCell
    \/ GroupNumberCell
    \/ IntervalCell
    \/ IntervalColumnsCell
    \/ DurationCell
    \/ PointCountCell
    \/ ReportingGapCell
    \/ PingRateCell
    \/ DuplicateCell
    \/ OverlapCell
    \/ NoncontiguousCell
    \/ DuplicateAgainCell
    \/ InvalidLoadCell
    \/ BackfillCell
    \/ WriteCell

\* one run of the notebook
Spec == Init /\ [][Next]_vars

\* a run of the notebook followed by a run on its own output
NextRoundTrip ==
    \/ Next
    \/ Rerun

SpecRoundTrip == Init /\ [][NextRoundTrip]_vars

----------------------------------------------------------------------------
(* The properties *)

PcOrder ==
    <<"sort", "time_delta", "group_number", "intervals", "interval_columns",
      "duration", "point_count", "reporting_gap", "ping_rate", "duplicate",
      "overlap", "noncontiguous", "duplicate_again", "invalid_load", "backfill",
      "write", "done">>

Rank(p) == CHOOSE i \in DOMAIN PcOrder : PcOrder[i] = p

\* the cell named has run (in the current run); a run that ended with an error
\* ended in the reporting-gap cell
HasRun(cell) == Rank(IF pc = "error" THEN "reporting_gap" ELSE pc) > Rank(cell)

\* the nine rule flags of an interval row, by name
RuleFlags(a) ==
    <<a.invalid_load_duration_short, a.invalid_load_duration_long,
      a.invalid_load_point_count_low, a.invalid_load_point_count_high,
      a.invalid_load_reporting_gap, a.invalid_load_ping_rate,
      a.invalid_load_overlap, a.invalid_load_noncontiguous,
      a.invalid_load_duplicate>>

\* the interval rows of a record's own contract and group
OwnIntervals(r) ==
    {k \in DOMAIN group_intervals :
        /\ group_intervals[k].contract = r.contract_id
        /\ group_intervals[k].group = r.group_number}

\* the closed time ranges of two interval rows intersect
RangesIntersect(a, b) ==
    a.msg_time_min <= b.msg_time_max /\ b.msg_time_min <= a.msg_time_max

\* b comes before a when a contract's intervals are sorted by time_min (ties by
\* time_max, then by group id)
SortsBefore(b, a) ==
    \/ b.msg_time_min < a.msg_time_min
    \/ b.msg_time_min = a.msg_time_min /\ b.msg_time_max < a.msg_time_max
    \/ b.msg_time_min = a.msg_time_min /\ b.msg_time_max = a.msg_time_max
                                       /\ b.group < a.group

\* the intervals of a's contract that come before a
Predecessors(a) ==
    {k \in DOMAIN group_intervals :
        /\ group_intervals[k].contract = a.contract
        /\ SortsBefore(group_intervals[k], a)}

\* the last of them
Predecessor(a) ==
    group_intervals[CHOOSE k \in Predecessors(a) :
        \A m \in Predecessors(a) :
            m = k \/ SortsBefore(group_intervals[m], group_intervals[k])]

\* a has a same-contract predecessor further away than load_gap_threshold
GapToPredecessor(a) ==
    /\ Predecessors(a) # {}
    /\ Abs(a.msg_time_min - Predecessor(a).msg_time_max) > cfg.load_gap_threshold

\* some other interval of a's contract has a's label
LabelRepeated(k) ==
    \E m \in DOMAIN group_intervals :
        /\ m # k
        /\ group_intervals[m].contract = group_intervals[k].contract
        /\ group_intervals[m].load = group_intervals[k].load

\* some other interval of a's contract intersects a
OverlapsSibling(k) ==
    \E m \in DOMAIN group_intervals :
        /\ m # k
        /\ group_intervals[m].contract = group_intervals[k].contract
        /\ RangesIntersect(group_intervals[k], group_intervals[m])

(* C1: after the backfill every output record carries the ten flag values of
   the interval of its own contract and group. *)
C1_BackfillAttachesOwnInterval ==
    HasRun("backfill") =>
        \A i \in DOMAIN orig_df_out :
            /\ OwnIntervals(orig_df_out[i].row) # {}
            /\ \A k \in OwnIntervals(orig_df_out[i].row) :
                    orig_df_out[i].flags = flag_columns(group_intervals[k])

(* C2: an interval whose label is the label of another interval of the same
   contract has invalid_load_duplicate = 1, and an interval whose label occurs
   once in its contract has it 0. *)
C2_DuplicateCompleteness ==
    HasRun("duplicate_again") =>
        \A k \in DOMAIN group_intervals :
            group_intervals[k].load # Null =>
                group_intervals[k].invalid_load_duplicate =
                    (IF LabelRepeated(k) THEN 1 ELSE 0)

\* the segmenter's table: orig_df between the group-number cell and the
\* backfill's sort
Segmented == HasRun("group_number") /\ ~HasRun("backfill")

\* two labels differ; a null label differs from every label, null included
LabelsDiffer(a, b) == a = Null \/ b = Null \/ a # b

(* C3: a contract's records are in time order, the first has group id 1, and
   each later one has its predecessor's group id plus one if the two labels
   differ (null differing from everything) and the same group id otherwise. *)
C3_SegmentationCorrect ==
    Segmented =>
        \A c \in Contracts :
            LET rows == contract_rows(orig_df, c)
            IN  \A i \in DOMAIN rows :
                    IF i = 1 THEN rows[i].group_number = 1
                    ELSE /\ rows[i - 1].msg_time <= rows[i].msg_time
                         /\ rows[i].group_number =
                                IF LabelsDiffer(rows[i - 1].load_number, rows[i].load_number)
                                THEN rows[i - 1].group_number + 1
                                ELSE rows[i - 1].group_number

\* a contract whose second and third records have null labels, the second
\* sharing its timestamp with the first: the two nulls start a group each
C3_Witness ==
    /\ Segmented
    /\ \E c \in Contracts :
        LET rows == contract_rows(orig_df, c)
        IN  /\ Len(rows) = 3
            /\ rows[1].msg_time = rows[2].msg_time
            /\ rows[1].load_number # Null
            /\ rows[2].load_number = Null /\ rows[3].load_number = Null
            /\ rows[2].group_number = 2 /\ rows[3].group_number = 3

(* C4: for every contract the total_points of its intervals add up to the
   number of its records, every record belongs to exactly one interval, and
   every interval has at least one point. *)
C4_PartitionComplete ==
    HasRun("intervals") =>
        /\ \A c \in Contracts :
            LET mine == interval_rows(group_intervals, c)
            IN  SumSeq([k \in DOMAIN mine |-> mine[k].total_points])
                    = Cardinality({i \in DOMAIN orig_df : orig_df[i].contract_id = c})
        /\ \A i \in DOMAIN orig_df : Cardinality(OwnIntervals(orig_df[i])) = 1
        /\ \A k \in DOMAIN group_intervals : group_intervals[k].total_points >= 1

\* two contracts, one of them with an interval of several points and a null label
C4_Witness ==
    /\ HasRun("intervals")
    /\ \E k, m \in DOMAIN group_intervals :
        /\ group_intervals[k].contract # group_intervals[m].contract
        /\ group_intervals[k].total_points >= 2
    /\ \E i \in DOMAIN orig_df : orig_df[i].load_number = Null

\* a table's rows cut down to the input columns
InputColumns(r) ==
    [contract_id |-> r.contract_id, msg_time |-> r.msg_time,
     load_number |-> r.load_number, payload |-> r.payload]

\* how often x occurs in s
Count(s, x) == Cardinality({i \in DOMAIN s : s[i] = x})

SameMultiset(s, t) ==
    /\ Len(s) = Len(t)
    /\ \A x \in Range(s) \cup Range(t) : Count(s, x) = Count(t, x)

(* C5: the backfilled table, and the CSV written from it, have as many rows
   as the input and, cut down to the input columns, are the same multiset of
   rows as the input. *)
C5_BackfillPreservesRows ==
    /\ HasRun("backfill") =>
        SameMultiset([i \in DOMAIN orig_df_out |-> InputColumns(orig_df_out[i].row)],
                     input)
    /\ HasRun("write") =>
        SameMultiset([i \in DOMAIN output_csv |-> InputColumns(output_csv[i])], input)

\* three records, two intervals keyed by the same time_min, and a record whose
\* msg_time is no interval's key
C5_Witness ==
    /\ HasRun("write")
    /\ Len(output_csv) = 3
    /\ \E k, m \in DOMAIN group_intervals :
        k # m /\ group_intervals[k].msg_time = group_intervals[m].msg_time
    /\ \E i \in DOMAIN output_csv :
        \A k \in DOMAIN group_intervals :
            group_intervals[k].msg_time # output_csv[i].msg_time

(* C6: an interval has the overlap flag set exactly if another interval of
   the same contract has a closed time range intersecting its own. *)
C6_OverlapSymmetricExact ==
    HasRun("overlap") =>
        \A k \in DOMAIN group_intervals :
            group_intervals[k].invalid_load_overlap =
                (IF OverlapsSibling(k) THEN 1 ELSE 0)

\* two flagged intervals of one contract, and an interval of another contract
\* that intersects one of them and is not flagged
C6_Witness ==
    /\ HasRun("overlap")
    /\ \E k, m, n \in DOMAIN group_intervals :
        /\ k # m
        /\ group_intervals[k].contract = group_intervals[m].contract
        /\ group_intervals[k].invalid_load_overlap = 1
        /\ group_intervals[m].invalid_load_overlap = 1
        /\ group_intervals[n].contract # group_intervals[k].contract
        /\ RangesIntersect(group_intervals[n], group_intervals[k])
        /\ group_intervals[n].invalid_load_overlap = 0

(* C7: an interval is flagged noncontiguous exactly if it is not the first
   interval of its contract in time_min order and its time_min is more than
   load_gap_threshold away from its predecessor's time_max. *)
C7_NoncontiguousScoped ==
    HasRun("noncontiguous") =>
        \A k \in DOMAIN group_intervals :
            group_intervals[k].invalid_load_noncontiguous =
                (IF GapToPredecessor(group_intervals[k]) THEN 1 ELSE 0)

\* a flagged interval, and the first interval of a later contract that is
\* further than the threshold from the row before it and is not flagged
C7_Witness ==
    /\ HasRun("noncontiguous") /\ ~HasRun("backfill")
    /\ \E k \in DOMAIN group_intervals :
        group_intervals[k].invalid_load_noncontiguous = 1
    /\ \E k \in DOMAIN group_intervals :
        /\ k > 1
        /\ group_intervals[k - 1].contract # group_intervals[k].contract
        /\ Abs(group_intervals[k].msg_time_min - group_intervals[k - 1].msg_time_max)
                > cfg.load_gap_threshold
        /\ group_intervals[k].invalid_load_noncontiguous = 0

(* C8: invalid_load is 1 exactly if at least one of the nine rule flags is 1,
   and 0 otherwise. *)
C8_InvalidLoadIsOr ==
    HasRun("invalid_load") =>
        \A k \in DOMAIN group_intervals :
            group_intervals[k].invalid_load =
                (IF \E r \in 1 .. 9 : RuleFlags(group_intervals[k])[r] = 1
                 THEN 1 ELSE 0)

\* an interval condemned by the overlap flag alone, beside a clean interval
C8_Witness ==
    /\ HasRun("invalid_load")
    /\ \E k, m \in DOMAIN group_intervals :
        /\ group_intervals[k].invalid_load = 1
        /\ \A r \in 1 .. 9 :
            RuleFlags(group_intervals[k])[r] = (IF r = 7 THEN 1 ELSE 0)
        /\ group_intervals[m].invalid_load = 0

Violates(k, r) ==
    LET a == group_intervals[k]
        avg == a.time_delta_avg
    IN  CASE r = 1 -> a.total_time < cfg.duration_threshold_min
          [] r = 2 -> a.total_time > cfg.duration_threshold_max
          [] r = 3 -> a.total_points < cfg.point_threshold_min
          [] r = 4 -> a.total_points > cfg.point_threshold_max
          [] r = 5 -> avg.count > 0 /\ avg.sum > cfg.load_gap_threshold * avg.count
          [] r = 6 -> /\ avg.count > 0
                      /\ Abs(a.total_time * avg.count - avg.sum * a.total_points)
                            > cfg.ping_rate_threshold * a.total_points * avg.count
          [] r = 7 -> OverlapsSibling(k)
          [] r = 8 -> GapToPredecessor(a)
          [] r = 9 -> a.load # Null /\ LabelRepeated(k)

(* C10: an interval that violates exactly one of the nine rules has exactly
   that rule's flag set to 1 and the other eight 0: each flag can be set in
   isolation. *)
C10_FlagsSetInIsolation ==
    HasRun("invalid_load") =>
        \A k \in DOMAIN group_intervals : \A r \in 1 .. 9 :
            (Violates(k, r) /\ \A q \in 1 .. 9 : q # r => ~Violates(k, q)) =>
                \A q \in 1 .. 9 :
                    RuleFlags(group_intervals[k])[q] = (IF q = r THEN 1 ELSE 0)

\* the input file cut down to the records of contract c, in file order
OnlyContract(c) == SelectSeq(input, LAMBDA r : r.contract_id = c)

\* a sort by msg_time that keeps records with equal msg_time in arrival order
RECURSIVE InsertByTime(_, _)
InsertByTime(s, x) ==
    IF s = <<>> THEN <<x>>
    ELSE IF x.msg_time < s[Len(s)].msg_time
         THEN Append(InsertByTime(SubSeq(s, 1, Len(s) - 1), x), s[Len(s)])
         ELSE Append(s, x)

RECURSIVE StableByTime(_)
StableByTime(s) ==
    IF s = <<>> THEN <<>>
    ELSE InsertByTime(StableByTime(SubSeq(s, 1, Len(s) - 1)), s[Len(s)])

\* the records of contract c as the run on contract c's records alone leaves
\* them after the group-number cell, its sorts keeping arrival order
IsolatedRecords(c) ==
    calculate_group_number(time_delta_cell(StableByTime(read_csv(OnlyContract(c))), cfg))

\* and that run's interval table after the invalid_load cell
IsolatedIntervals(c) ==
    LET table == interval_columns(interval_aggregation(IsolatedRecords(c)))
        flagged == ping_rate_flag(reporting_gap_flag(point_count_flags(
                       duration_flags(table, cfg), cfg), cfg), cfg)
    IN  invalid_load_flag(duplicate_flag(noncontiguous_flag(
            overlap_flag(duplicate_flag(flagged)), cfg)))

(* C11: the time deltas and group ids of a contract's records, and its
   intervals with their flags, are those of the run on that contract's records
   alone: they do not depend on what other records the input holds. *)
C11_ContractIsolation ==
    /\ pc = "intervals" =>
        \A c \in Contracts :
            Range(contract_rows(orig_df, c)) = Range(IsolatedRecords(c))
    /\ pc = "backfill" =>
        \A c \in Contracts :
            Range(interval_rows(group_intervals, c)) = Range(IsolatedIntervals(c))

\* the table just after the time_delta cell
Ordered == pc = "group_number"

(* C12: after the time_delta cell the records are in time order and a record's
   time_delta is its msg_time minus that of the record before it in its
   contract; it is null for a contract's first record and for a difference
   greater than contract_gap_threshold, a difference equal to the threshold is
   kept; the cell leaves every record at its place. *)
C12_TimeOrdererDeltas ==
    /\ [](Ordered =>
            /\ \A i \in 1 .. Len(orig_df) - 1 :
                    orig_df[i].msg_time <= orig_df[i + 1].msg_time
            /\ \A c \in Contracts :
                LET rows == contract_rows(orig_df, c)
                IN  \A i \in DOMAIN rows :
                        rows[i].time_delta =
                            IF i = 1 THEN Null
                            ELSE IF rows[i].msg_time - rows[i - 1].msg_time
                                        > cfg.contract_gap_threshold
                                 THEN Null
                                 ELSE rows[i].msg_time - rows[i - 1].msg_time)
    /\ [][pc = "time_delta" =>
            [i \in DOMAIN orig_df' |-> InputColumns(orig_df'[i])]
                = [i \in DOMAIN orig_df |-> InputColumns(orig_df[i])]]_vars

\* two records of a contract further apart than the threshold, a record of
\* the other contract between them: the later one's delta is nulled and the
\* three records are still there
C12_Witness ==
    /\ Ordered
    /\ Len(orig_df) = 3
    /\ orig_df[1].contract_id = orig_df[3].contract_id
    /\ orig_df[2].contract_id # orig_df[1].contract_id
    /\ orig_df[1].msg_time < orig_df[2].msg_time
    /\ orig_df[2].msg_time < orig_df[3].msg_time
    /\ orig_df[3].msg_time - orig_df[1].msg_time > cfg.contract_gap_threshold
    /\ orig_df[3].time_delta = Null

\* the records of an interval row's group
Members(a) ==
    {i \in DOMAIN orig_df :
        orig_df[i].contract_id = a.contract /\ orig_df[i].group_number = a.group}

\* an interval row's average delta is null
NullAverage(a) == a.time_delta_avg.count = 0

(* C13: an interval all of whose records have a null time_delta has a null
   average delta, its reporting-gap and ping-rate flags are 0, and the run
   does not end with an error. *)
C13_NullAveragePropagates ==
    /\ (HasRun("intervals") /\ ~HasRun("backfill")) =>
        \A k \in DOMAIN group_intervals :
            (\A i \in Members(group_intervals[k]) : orig_df[i].time_delta = Null)
                => NullAverage(group_intervals[k])
    /\ HasRun("ping_rate") =>
        \A k \in DOMAIN group_intervals :
            NullAverage(group_intervals[k]) =>
                /\ group_intervals[k].invalid_load_reporting_gap = 0
                /\ group_intervals[k].invalid_load_ping_rate = 0
    /\ pc # "error"

\* interval row b touches interval row a: it starts at the time a ends
Touches(a, b) == a.msg_time_max = b.msg_time_min

(* C14: of two intervals of a contract the one with the smaller group id ends
   no later than the other starts (time_min(g) <= time_max(g) <= time_min(h)
   <= time_max(h) for g < h); so an interval with the overlap flag set shares
   only a boundary timestamp with the intervals of its contract that it
   intersects. *)
C14_IntervalOrdering ==
    /\ HasRun("intervals") =>
        \A k, m \in DOMAIN group_intervals :
            (/\ group_intervals[k].contract = group_intervals[m].contract
             /\ group_intervals[k].group < group_intervals[m].group) =>
                /\ group_intervals[k].msg_time_min <= group_intervals[k].msg_time_max
                /\ group_intervals[k].msg_time_max <= group_intervals[m].msg_time_min
                /\ group_intervals[m].msg_time_min <= group_intervals[m].msg_time_max
    /\ HasRun("overlap") =>
        \A k \in DOMAIN group_intervals :
            group_intervals[k].invalid_load_overlap = 1 =>
                /\ OverlapsSibling(k)
                /\ \A m \in DOMAIN group_intervals :
                        (/\ m # k
                         /\ group_intervals[m].contract = group_intervals[k].contract
                         /\ RangesIntersect(group_intervals[k], group_intervals[m])) =>
                            IF group_intervals[k].group < group_intervals[m].group
                            THEN Touches(group_intervals[k], group_intervals[m])
                            ELSE Touches(group_intervals[m], group_intervals[k])

\* an interval that lasts some time and the next interval of its contract,
\* which starts at the timestamp the first ends at: both are flagged
C14_Witness ==
    /\ HasRun("overlap")
    /\ \E k, m \in DOMAIN group_intervals :
        /\ group_intervals[k].contract = group_intervals[m].contract
        /\ group_intervals[k].group < group_intervals[m].group
        /\ group_intervals[k].msg_time_min < group_intervals[k].msg_time_max
        /\ Touches(group_intervals[k], group_intervals[m])
        /\ group_intervals[k].invalid_load_overlap = 1
        /\ group_intervals[m].invalid_load_overlap = 1

\* the interval rows of a's contract with the group id before a's
PreviousGroup(a) ==
    {k \in DOMAIN group_intervals :
        /\ group_intervals[k].contract = a.contract
        /\ group_intervals[k].group = a.group - 1}

\* the time from the last record of the group before a's to a's first record
BoundaryGap(a) ==
    a.msg_time_min
        - group_intervals[CHOOSE k \in PreviousGroup(a) : TRUE].msg_time_max

\* a has one record, is not its contract's first group, and the gap back to
\* the group before it does not exceed contract_gap_threshold
SingleAfterGroup(a) ==
    /\ a.total_points = 1
    /\ PreviousGroup(a) # {}
    /\ BoundaryGap(a) <= cfg.contract_gap_threshold

(* C15: the first record of a group that is not its contract's first has as
   time_delta the gap back to the last record of the group before (null when
   the gap exceeds contract_gap_threshold); a one-record interval that is not
   first in its contract, its gap within the threshold, has that gap as its
   average delta, and its reporting-gap flag is 1 exactly if the gap is
   greater than load_gap_threshold. *)
C15_BoundaryDeltaAttribution ==
    /\ Segmented =>
        \A c \in Contracts :
            LET rows == contract_rows(orig_df, c)
            IN  \A i \in DOMAIN rows :
                    (i > 1 /\ rows[i].group_number # rows[i - 1].group_number) =>
                        rows[i].time_delta =
                            IF rows[i].msg_time - rows[i - 1].msg_time
                                    > cfg.contract_gap_threshold
                            THEN Null
                            ELSE rows[i].msg_time - rows[i - 1].msg_time
    /\ HasRun("intervals") =>
        \A k \in DOMAIN group_intervals :
            SingleAfterGroup(group_intervals[k]) =>
                group_intervals[k].time_delta_avg =
                    [sum |-> BoundaryGap(group_intervals[k]), count |-> 1]
    /\ HasRun("reporting_gap") =>
        \A k \in DOMAIN group_intervals :
            SingleAfterGroup(group_intervals[k]) =>
                group_intervals[k].invalid_load_reporting_gap =
                    (IF BoundaryGap(group_intervals[k]) > cfg.load_gap_threshold
                     THEN 1 ELSE 0)

=============================================================================
